---- MODULE Spec2Model ----
(***************************************************************************)
(* Model of the Connection screen (App/screens/Connection.tsx).            *)
(*                                                                         *)
(* The screen is a React function component.  Its local state is a reducer *)
(* state (merge of partial updates); dispatches are queued and applied by  *)
(* the next render.  After a render commits, the effects whose dependency  *)
(* lists changed run in declaration order, all against the snapshot of     *)
(* that render.  The timer callback and the button handler run between     *)
(* renders, once the updates queued so far have been rendered.             *)
(***************************************************************************)
EXTENDS Integers, Sequences, FiniteSets, TLC

\* Largest notification feed considered.
MaxFeed == 2
\* Largest number of presses of the "Back to home" button considered.
MaxDismiss == 2

\* JavaScript undefined / null (an absent record, an unset ref).
undefined == [type |-> "undefined"]
\* An absent string-valued property (goalCode, connectionId, threadId).
absent == "undefined"

\* const GoalCodes
GoalCodes ==
  [proofRequestVerify |-> "aries.vc.verify",
   proofRequestVerifyOnce |-> "aries.vc.verify.once",
   credentialOffer |-> "aries.vc.issue"]

\* Goal codes an invitation may carry (absent, the vocabulary, a foreign one).
GoalCodeInputs ==
  {absent, "aries.vc.verify", "aries.vc.verify.once", "aries.vc.issue", "unknown.goal"}

\* Values the invitationRequestsThreadIds tag of the invitation may take.
ThreadIdTagInputs == {{}, {"t1"}}

\* The out-of-band records useOutOfBandById may return.
OobRecords ==
  [type : {"OutOfBandRecord"}, goalCode : GoalCodeInputs,
   invitationRequestsThreadIds : ThreadIdTagInputs]

\* The connection record useConnectionByOutOfBandId may return.
ConnectionRecords == {[type |-> "ConnectionRecord", id |-> "c1"]}

\* The notification records the feed may hold; ids are unique.
NotificationRecords ==
  { [type |-> "BasicMessageRecord", id |-> "b1", connectionId |-> "c1", threadId |-> "t1"],
    [type |-> "ProofExchangeRecord", id |-> "p1", connectionId |-> absent, threadId |-> "t1"],
    [type |-> "CredentialExchangeRecord", id |-> "x1", connectionId |-> "c1", threadId |-> "t1"],
    [type |-> "W3cCredentialRecord", id |-> "w1", connectionId |-> absent, threadId |-> absent],
    [type |-> "SdJwtVcRecord", id |-> "s1", connectionId |-> absent, threadId |-> absent] }

\* The set of elements of a sequence.
Range(f) == {f[i] : i \in DOMAIN f}

\* Feeds of at most n records, no record twice.
FeedsUpTo(n) ==
  {f \in UNION {[1..k -> NotificationRecords] : k \in 0..n} :
     \A i, j \in DOMAIN f : f[i] = f[j] => i = j}

\* The feed f with record r inserted before position i.
InsertAt(f, i, r) == SubSeq(f, 1, i - 1) \o <<r>> \o SubSeq(f, i, Len(f))

VARIABLES
  state,          \* the reducer state of the last render (LocalState)
  pending,        \* dispatched partial updates not yet reduced
  timerRef,       \* timerRef.current: "armed" or "null"
  lifecycle,      \* "new", "mounted" or "unmounted"
  oobRecord,      \* value of useOutOfBandById
  connection,     \* value of useConnectionByOutOfBandId
  notifications,  \* value of useNotifications
  autoRedirectConnectionToHome,  \* configuration flag
  nav,            \* navigation calls issued so far, in order
  announced,      \* number of announceForAccessibility calls
  errors,         \* messages passed to logger.error
  dismissals      \* number of presses of the dismiss button

vars ==
  <<state, pending, timerRef, lifecycle, oobRecord, connection, notifications,
    autoRedirectConnectionToHome, nav, announced, errors, dismissals>>

\* const merge: MergeFunction = (current, next) => ({ ...current, ...next })
merge(current, next) ==
  [k \in DOMAIN current |-> IF k \in DOMAIN next THEN next[k] ELSE current[k]]

\* useReducer: the queued updates are reduced in order at the next render.
RECURSIVE Reduce(_, _)
Reduce(current, queue) ==
  IF queue = <<>> THEN current
  ELSE Reduce(merge(current, Head(queue)), Tail(queue))

\* The reducer state the next render will see.
NextState == Reduce(state, pending)

\* useReducer(merge, {...}): the initial LocalState.
InitialState ==
  [inProgress |-> TRUE, shouldShowDelayMessage |-> FALSE, notificationRecord |-> undefined]

\* What one effect pass has produced so far.
Dispatch(out, action) == [out EXCEPT !.pending = Append(@, action)]
Navigate(out, call) == [out EXCEPT !.nav = Append(@, call)]
Announce(out) == [out EXCEPT !.announced = @ + 1]
LogError(out, message) == [out EXCEPT !.errors = @ \cup {message}]

\* The navigation calls, with the source line that issues them.
HomeCall(line) == [screen |-> "Home", params |-> [screen |-> "Home"], line |-> line]
ChatCall(conn, line) == [screen |-> "Chat", params |-> [connectionId |-> conn.id], line |-> line]
\* Faulty variant: the proof request is keyed by the thread id.
ProofRequestCallByThread(rec, line) ==
  [screen |-> "ProofRequest", params |-> [proofId |-> rec.threadId], line |-> line]

ProofRequestCall(rec, line) ==
  [screen |-> "ProofRequest", params |-> [proofId |-> rec.id], line |-> line]
CredentialOfferCall(rec, line) ==
  [screen |-> "CredentialOffer", params |-> [credentialId |-> rec.id], line |-> line]
OpenIDCredentialDetailsCall(rec, line) ==
  [screen |-> "OpenIDCredentialDetails", params |-> [credential |-> rec], line |-> line]

\* goalCode ?? ''
GoalCodeOrEmpty(goalCode) == IF goalCode = absent THEN "" ELSE goalCode

\* Faulty variant: an absent goal code is taken for a known one.
IsKnownGoalCodeAbsentAccepted(goalCode) ==
  goalCode = absent \/ goalCode \in {GoalCodes[k] : k \in DOMAIN GoalCodes}

\* (Object.values(GoalCodes) as [string]).includes(goalCode ?? '')
IsKnownGoalCode(goalCode) ==
  GoalCodeOrEmpty(goalCode) \in {GoalCodes[k] : k \in DOMAIN GoalCodes}

\* Faulty variant: the comparison with proofRequestVerifyOnce is missing.
IsProofRequestGoalVerifyOnly(goalCode) == goalCode = GoalCodes.proofRequestVerify

\* Faulty variant: the second comparison names the wrong goal code.
IsProofRequestGoalWrongCode(goalCode) ==
  goalCode = GoalCodes.proofRequestVerify \/ goalCode = GoalCodes.credentialOffer

\* goalCode === proofRequestVerify || goalCode === proofRequestVerifyOnce
IsProofRequestGoal(goalCode) ==
  goalCode = GoalCodes.proofRequestVerify \/ goalCode = GoalCodes.proofRequestVerifyOnce

\* goalCode === GoalCodes.credentialOffer
IsCredentialOfferGoal(goalCode) == goalCode = GoalCodes.credentialOffer

\* type === 'W3cCredentialRecord' || type === 'SdJwtVcRecord'
IsOpenIDCredential(rec) ==
  rec.type = "W3cCredentialRecord" \/ rec.type = "SdJwtVcRecord"

\* Faulty variant: the auto-redirect flag is tested the wrong way round.
DelayEffectFlagInverted(snap, out) ==
  IF snap.state.shouldShowDelayMessage /\ snap.state.notificationRecord = undefined
  THEN IF ~autoRedirectConnectionToHome
       THEN Navigate(Dispatch(out, [shouldShowDelayMessage |-> FALSE, inProgress |-> FALSE]),
                     HomeCall(107))
       ELSE Announce(out)
  ELSE out

\* The delay effect.
\* Faulty variant: the delay effect does not look at the matched notification.
DelayEffectIgnoresMatch(snap, out) ==
  IF snap.state.shouldShowDelayMessage
  THEN IF autoRedirectConnectionToHome
       THEN Navigate(Dispatch(out, [shouldShowDelayMessage |-> FALSE, inProgress |-> FALSE]),
                     HomeCall(107))
       ELSE Announce(out)
  ELSE out

\* Faulty variant: the auto-redirect clears the delay flag but not inProgress.
DelayEffectKeepsInProgress(snap, out) ==
  IF snap.state.shouldShowDelayMessage /\ snap.state.notificationRecord = undefined
  THEN IF autoRedirectConnectionToHome
       THEN Navigate(Dispatch(out, [shouldShowDelayMessage |-> FALSE]), HomeCall(107))
       ELSE Announce(out)
  ELSE out

DelayEffect(snap, out) ==
  IF snap.state.shouldShowDelayMessage /\ snap.state.notificationRecord = undefined
  THEN IF autoRedirectConnectionToHome
       THEN Navigate(Dispatch(out, [shouldShowDelayMessage |-> FALSE, inProgress |-> FALSE]),
                     HomeCall(107))
       ELSE Announce(out)
  ELSE out

\* Faulty variant: the feed is listed among the delay effect's dependencies.
DelayDepsWithFeed(snap) ==
  <<snap.state.shouldShowDelayMessage, snap.state.notificationRecord, snap.notifications>>

DelayDeps(snap) == <<snap.state.shouldShowDelayMessage, snap.state.notificationRecord>>

\* Faulty variant: the router does not wait for the invitation record; a
\* missing record reads as a missing goal code.
RouterEffectNoOobGuard(snap, out) ==
  LET oob == snap.oobRecord
      goalCode == IF oob = undefined THEN absent ELSE oob.goalCode
      conn == snap.connection
      rec == snap.state.notificationRecord
      resolved == Dispatch(out, [inProgress |-> FALSE])
  IN  IF ~snap.state.inProgress THEN out
      ELSE IF conn # undefined /\ ~IsKnownGoalCode(goalCode)
        THEN Navigate(resolved, ChatCall(conn, 125))
      ELSE IF rec = undefined THEN out
      ELSE IF conn = undefined THEN Navigate(resolved, ProofRequestCall(rec, 144))
      ELSE IF oob = undefined
        THEN LogError(out, "Connection: No OOB record where one is expected")
      ELSE IF IsProofRequestGoal(goalCode)
        THEN Navigate(resolved, ProofRequestCall(rec, 164))
      ELSE IF IsCredentialOfferGoal(goalCode)
        THEN Navigate(resolved, CredentialOfferCall(rec, 173))
      ELSE Navigate(resolved, ChatCall(conn, 181))

\* The goal-code router effect.
RouterEffect(snap, out) ==
  LET oob == snap.oobRecord
      conn == snap.connection
      rec == snap.state.notificationRecord
      resolved == Dispatch(out, [inProgress |-> FALSE])
  IN  IF oob = undefined \/ ~snap.state.inProgress THEN out
      ELSE IF conn # undefined /\ ~IsKnownGoalCode(oob.goalCode)
        THEN Navigate(resolved, ChatCall(conn, 125))
      ELSE IF rec = undefined THEN out
      ELSE IF conn = undefined THEN Navigate(resolved, ProofRequestCall(rec, 144))
      ELSE IF oob = undefined
        THEN LogError(out, "Connection: No OOB record where one is expected")
      ELSE IF IsProofRequestGoal(oob.goalCode)
        THEN Navigate(resolved, ProofRequestCall(rec, 164))
      ELSE IF IsCredentialOfferGoal(oob.goalCode)
        THEN Navigate(resolved, CredentialOfferCall(rec, 173))
      ELSE Navigate(resolved, ChatCall(conn, 181))

RouterDeps(snap) ==
  <<snap.oobRecord, snap.state.inProgress, snap.connection, snap.state.notificationRecord>>

\* The effect that monitors OpenID credentials.
OpenIDEffect(snap, out) ==
  IF ~snap.state.inProgress THEN out
  ELSE IF snap.state.notificationRecord = undefined THEN out
  ELSE IF IsOpenIDCredential(snap.state.notificationRecord)
    THEN Navigate(Dispatch(out, [inProgress |-> FALSE]),
                  OpenIDCredentialDetailsCall(snap.state.notificationRecord, 202))
  ELSE out

\* Faulty variant: the type tag is misspelt, so no record is skipped.
IsBasicMessageWrongTag(notification) == notification.type = "BasicMessage"

\* type === 'BasicMessageRecord'
IsBasicMessage(notification) == notification.type = "BasicMessageRecord"

\* threadId ?? ""
ThreadIdOrEmpty(notification) ==
  IF notification.threadId = absent THEN "" ELSE notification.threadId

\* Faulty variant: the two correlation tests are joined by "and".
CorrelatesBoth(notification, conn, oob) ==
  /\ conn # undefined /\ notification.connectionId = conn.id
  /\ oob # undefined /\ ThreadIdOrEmpty(notification) \in oob.invitationRequestsThreadIds

\* The correlation test of the matcher.
Correlates(notification, conn, oob) ==
  \/ conn # undefined /\ notification.connectionId = conn.id
  \/ oob # undefined /\ ThreadIdOrEmpty(notification) \in oob.invitationRequestsThreadIds

\* One iteration of the matcher's loop: does this notification get dispatched?
Matches(notification, conn, oob) ==
  /\ ~IsBasicMessage(notification)
  /\ \/ Correlates(notification, conn, oob)
     \/ notification.type = "W3cCredentialRecord"
     \/ notification.type = "SdJwtVcRecord"

\* for (const notification of notifications) { ... break }
RECURSIVE MatchLoop(_, _, _, _)
MatchLoop(feed, conn, oob, out) ==
  IF feed = <<>> THEN out
  ELSE IF Matches(Head(feed), conn, oob)
    THEN Dispatch(out, [notificationRecord |-> Head(feed)])
  ELSE MatchLoop(Tail(feed), conn, oob, out)

\* Faulty variant: the guard does not test for an existing match.
MatcherEffectNoMatchGuard(snap, out) ==
  IF ~snap.state.inProgress THEN out
  ELSE MatchLoop(snap.notifications, snap.connection, snap.oobRecord, out)

\* The matcher effect.
MatcherEffect(snap, out) ==
  IF ~snap.state.inProgress \/ snap.state.notificationRecord # undefined THEN out
  ELSE MatchLoop(snap.notifications, snap.connection, snap.oobRecord, out)

MatcherDeps(snap) ==
  <<snap.state.inProgress, snap.state.notificationRecord, snap.notifications,
    snap.connection, snap.oobRecord>>

\* startTimer: timerRef.current = setTimeout(...)
StartTimer(ref) == "armed"

\* Faulty variant: the timeout is not cleared.
AbortTimerNoClear(ref) == ref

\* abortTimer: clearTimeout(timerRef.current); timerRef.current = null
AbortTimer(ref) == IF ref # "null" THEN "null" ELSE ref

\* The effects of one render pass, in declaration order.  An effect runs on
\* the first render, and afterwards when one of its dependencies changed;
\* the OpenID effect depends on the state object, which every reduction
\* replaces.
RunEffects(first, reduced, old, snap, out) ==
  LET o1 == IF first \/ DelayDeps(snap) # DelayDeps(old) THEN DelayEffect(snap, out) ELSE out
      o2 == IF first \/ RouterDeps(snap) # RouterDeps(old) THEN RouterEffect(snap, o1) ELSE o1
      o3 == IF first \/ reduced THEN OpenIDEffect(snap, o2) ELSE o2
      o4 == IF first \/ MatcherDeps(snap) # MatcherDeps(old) THEN MatcherEffect(snap, o3) ELSE o3
  IN  o4

\* The values the hooks returned to the last render.
Snapshot ==
  [state |-> state, oobRecord |-> oobRecord, connection |-> connection,
   notifications |-> notifications]

\* The values the record store may show next: records appear and stay.
OobNext(oob) == IF oob = undefined THEN {undefined} \cup OobRecords ELSE {oob}
ConnectionNext(conn) == IF conn = undefined THEN {undefined} \cup ConnectionRecords ELSE {conn}
FeedNext(feed) ==
  {feed} \cup
  IF Len(feed) < MaxFeed
  THEN {InsertAt(feed, i, r) : i \in 1..(Len(feed) + 1), r \in NotificationRecords \ Range(feed)}
  ELSE {}

Init ==
  /\ state = InitialState
  /\ pending = <<>>
  /\ timerRef = "null"
  /\ lifecycle = "new"
  /\ oobRecord = undefined
  /\ connection = undefined
  /\ notifications = <<>>
  /\ autoRedirectConnectionToHome \in BOOLEAN
  /\ nav = <<>>
  /\ announced = 0
  /\ errors = {}
  /\ dismissals = 0

\* A render commits snapshot snap and its effects run.
Commit(first, snap) ==
  LET out == RunEffects(first, pending # <<>>, Snapshot, snap,
                        [pending |-> <<>>, nav |-> nav, announced |-> announced,
                         errors |-> errors])
  IN  /\ state' = snap.state
      /\ oobRecord' = snap.oobRecord
      /\ connection' = snap.connection
      /\ notifications' = snap.notifications
      /\ pending' = out.pending
      /\ nav' = out.nav
      /\ announced' = out.announced
      /\ errors' = out.errors

\* The first render: every effect runs, the timer is started.
Mount ==
  /\ lifecycle = "new"
  /\ \E oob \in {undefined} \cup OobRecords, conn \in {undefined} \cup ConnectionRecords,
        feed \in FeedsUpTo(MaxFeed) :
       Commit(TRUE, [state |-> state, oobRecord |-> oob, connection |-> conn,
                     notifications |-> feed])
  /\ timerRef' = StartTimer(timerRef)
  /\ lifecycle' = "mounted"
  /\ UNCHANGED <<autoRedirectConnectionToHome, dismissals>>

\* A re-render, caused by queued dispatches or by a change of the hooks' values.
Render ==
  /\ lifecycle = "mounted"
  /\ \E oob \in OobNext(oobRecord), conn \in ConnectionNext(connection),
        feed \in FeedNext(notifications) :
       /\ \/ pending # <<>>
          \/ <<oob, conn, feed>> # <<oobRecord, connection, notifications>>
       /\ Commit(FALSE, [state |-> NextState, oobRecord |-> oob, connection |-> conn,
                         notifications |-> feed])
  /\ UNCHANGED <<timerRef, lifecycle, autoRedirectConnectionToHome, dismissals>>

\* The setTimeout callback of startTimer.  React re-renders for the updates
\* already queued before the next timer callback or press is handled.
TimerFire ==
  /\ timerRef = "armed"
  /\ pending = <<>>
  /\ pending' = Append(pending, [shouldShowDelayMessage |-> TRUE])
  /\ timerRef' = "null"
  /\ UNCHANGED <<state, lifecycle, oobRecord, connection, notifications,
                 autoRedirectConnectionToHome, nav, announced, errors, dismissals>>

\* onDismissModalTouched: the user presses "Back to home".
Dismiss ==
  /\ lifecycle = "mounted"
  /\ dismissals < MaxDismiss
  /\ pending = <<>>
  /\ pending' = Append(pending, [shouldShowDelayMessage |-> FALSE, inProgress |-> FALSE])
  /\ nav' = Append(nav, HomeCall(95))
  /\ dismissals' = dismissals + 1
  /\ UNCHANGED <<state, timerRef, lifecycle, oobRecord, connection, notifications,
                 autoRedirectConnectionToHome, announced, errors>>

\* The screen is unmounted: the cleanup of the timer effect runs.
Unmount ==
  /\ lifecycle = "mounted"
  /\ timerRef' = AbortTimer(timerRef)
  /\ lifecycle' = "unmounted"
  /\ UNCHANGED <<state, pending, oobRecord, connection, notifications,
                 autoRedirectConnectionToHome, nav, announced, errors, dismissals>>

\* The record store and the feed keep changing after the screen is gone.
StoreUpdate ==
  /\ lifecycle = "unmounted"
  /\ \E oob \in OobNext(oobRecord), conn \in ConnectionNext(connection),
        feed \in FeedNext(notifications) :
       /\ <<oob, conn, feed>> # <<oobRecord, connection, notifications>>
       /\ oobRecord' = oob
       /\ connection' = conn
       /\ notifications' = feed
  /\ UNCHANGED <<state, pending, timerRef, lifecycle, autoRedirectConnectionToHome,
                 nav, announced, errors, dismissals>>

Next == Mount \/ Render \/ TimerFire \/ Dismiss \/ Unmount \/ StoreUpdate

Spec == Init /\ [][Next]_vars

\* A re-render that applies queued updates.
Flush == pending # <<>> /\ Render

\* The screen is mounted and never torn down, and the user only waits.
NextWaiting == Mount \/ Render \/ TimerFire

\* The first render, the re-render for queued updates and the armed timer's
\* callback are not postponed forever.
FairSpec ==
  /\ Init /\ [][NextWaiting]_vars
  /\ WF_vars(Mount) /\ WF_vars(Flush) /\ WF_vars(TimerFire)

TypeOK ==
  /\ state.inProgress \in BOOLEAN
  /\ state.shouldShowDelayMessage \in BOOLEAN
  /\ state.notificationRecord \in {undefined} \cup NotificationRecords
  /\ timerRef \in {"armed", "null"}
  /\ lifecycle \in {"new", "mounted", "unmounted"}
  /\ dismissals \in 0..MaxDismiss

\* The navigation calls issued by effects (every call but the dismiss button's).
EffectCalls == SelectSeq(nav, LAMBDA call : call.line # 95)

\* The navigation calls issued by the router effect and the OpenID effect.
RoutingCalls == SelectSeq(nav, LAMBDA call : call.line \in {125, 144, 164, 173, 181, 202})

\* The vocabulary of goal codes, as the claims spell it.
KnownGoalCodes == {"aries.vc.verify", "aries.vc.verify.once", "aries.vc.issue"}

\* C1: whatever invitation, connection and feed updates are delivered, the
\* router and the OpenID effect together issue at most one navigation call.
C1_RouterResolvesAtMostOnce == Len(RoutingCalls) <= 1

\* C2: no ProofRequest or CredentialOffer navigation is ever issued for a
\* W3cCredentialRecord or SdJwtVcRecord; such a record only goes to
\* OpenIDCredentialDetails.
C2_OpenIDRecordOnlyToDetails ==
  \A i \in DOMAIN nav : \A r \in NotificationRecords :
    (r.type \in {"W3cCredentialRecord", "SdJwtVcRecord"})
      => nav[i] \notin {ProofRequestCall(r, 144), ProofRequestCall(r, 164),
                        CredentialOfferCall(r, 173)}

\* C3: a press of the dismiss button after the process has resolved issues no
\* navigation call and changes no field of the local state.
C3_DismissAfterResolutionIsNoOp ==
  [][(dismissals' # dismissals /\ ~state.inProgress)
       => (nav' = nav /\ NextState' = NextState)]_vars

\* C4: the watchdog never navigates Home after an earlier resolution: a Home
\* call of the delay effect is never preceded by another navigation call.
C4_NoWatchdogAfterResolution ==
  \A i \in DOMAIN nav : nav[i].line = 107 => i = 1

\* C5: with auto-redirect on, once the timer has expired with no notification
\* matched and no connection, and all updates are applied, exactly one Home
\* navigation has been issued over the whole run and inProgress is false.
C5_WatchdogHomeExactlyOnce ==
  (/\ autoRedirectConnectionToHome
   /\ lifecycle = "mounted"
   /\ timerRef = "null"
   /\ pending = <<>>
   /\ state.notificationRecord = undefined
   /\ connection = undefined)
    => /\ Cardinality({i \in DOMAIN nav : nav[i].screen = "Home"}) = 1
       /\ ~state.inProgress

\* C6: with auto-redirect off the watchdog never navigates and never ends the
\* process (inProgress stays true until some navigation call is issued), and
\* the "taking too long" announcement is made exactly once when the delay has
\* elapsed with no notification matched, and never more than once.
C6_DelayNoticeExactlyOnce ==
  ~autoRedirectConnectionToHome
    => /\ announced <= 1
       /\ \A i \in DOMAIN nav : nav[i].line # 107
       /\ nav = <<>> => NextState.inProgress
       /\ (/\ lifecycle # "new"
           /\ state.shouldShowDelayMessage
           /\ state.notificationRecord = undefined) => announced = 1

\* C6 witness: the notice was made once, the process is still waiting, and
\* the connection and a feed record have been evaluated.
C6_Witness ==
  /\ ~autoRedirectConnectionToHome
  /\ lifecycle = "mounted"
  /\ state.shouldShowDelayMessage
  /\ state.inProgress
  /\ state.notificationRecord = undefined
  /\ pending = <<>>
  /\ announced = 1
  /\ nav = <<>>
  /\ connection # undefined
  /\ oobRecord # undefined
  /\ notifications # <<>>

\* C7: a render that sees an invitation, a connection and a goal code outside
\* the vocabulary while in progress issues Chat for that connection and
\* dispatches inProgress = false, matched notification or not.
C7_ChatWithoutNotification ==
  (/\ lifecycle = "mounted"
   /\ state.inProgress
   /\ oobRecord # undefined
   /\ connection # undefined
   /\ oobRecord.goalCode \notin KnownGoalCodes)
    => /\ ChatCall(connection, 125) \in Range(nav)
       /\ ~NextState.inProgress

\* C7 witness: Chat was issued with an empty feed and no goal code.
C7_Witness ==
  /\ lifecycle = "mounted"
  /\ state.inProgress
  /\ oobRecord # undefined
  /\ connection # undefined
  /\ oobRecord.goalCode = absent
  /\ notifications = <<>>
  /\ state.notificationRecord = undefined
  /\ nav = <<ChatCall(connection, 125)>>

\* C8 (as stated): in the render that decides, with goal code aries.vc.issue,
\* a connection and a matched notification, every CredentialExchange record of
\* the feed on that connection is the one CredentialOffer is issued for.
C8_AnyFeedOfferRouted ==
  \A r \in Range(notifications) :
    (/\ lifecycle = "mounted"
     /\ state.inProgress
     /\ state.notificationRecord # undefined
     /\ oobRecord # undefined
     /\ connection # undefined
     /\ oobRecord.goalCode = "aries.vc.issue"
     /\ r.type = "CredentialExchangeRecord"
     /\ r.connectionId = connection.id
     /\ \A n \in Range(notifications) :
          n.type \notin {"W3cCredentialRecord", "SdJwtVcRecord"})
      => RoutingCalls = <<CredentialOfferCall(r, 173)>>

\* C8 (amended): in the render that decides, with goal code aries.vc.issue and
\* a connection, if the matched notification is a CredentialExchange record on
\* that connection, the effects issue CredentialOffer for its id and nothing
\* else, and dispatch inProgress = false.
C8_MatchedOfferRouted ==
  (/\ lifecycle = "mounted"
   /\ state.inProgress
   /\ oobRecord # undefined
   /\ connection # undefined
   /\ oobRecord.goalCode = "aries.vc.issue"
   /\ state.notificationRecord.type = "CredentialExchangeRecord"
   /\ state.notificationRecord.connectionId = connection.id)
    => /\ EffectCalls = <<CredentialOfferCall(state.notificationRecord, 173)>>
       /\ ~NextState.inProgress

\* C8 witness: the offer x1 was matched behind a skipped message and routed.
C8_Witness ==
  /\ lifecycle = "mounted"
  /\ state.inProgress
  /\ oobRecord # undefined
  /\ connection # undefined
  /\ oobRecord.goalCode = "aries.vc.issue"
  /\ state.notificationRecord.type = "CredentialExchangeRecord"
  /\ state.notificationRecord.connectionId = connection.id
  /\ Len(notifications) = 2
  /\ notifications[2] = state.notificationRecord
  /\ nav = <<CredentialOfferCall(state.notificationRecord, 173)>>

\* C9: while the feed has only ever held BasicMessageRecords, no notification
\* is matched (neither committed nor dispatched) and no ProofRequest,
\* CredentialOffer or OpenIDCredentialDetails navigation is issued.
C9_BasicMessagesNeverMatch ==
  (\A r \in Range(notifications) : r.type = "BasicMessageRecord")
    => /\ state.notificationRecord = undefined
       /\ NextState.notificationRecord = undefined
       /\ \A i \in DOMAIN nav :
            nav[i].screen \notin {"ProofRequest", "CredentialOffer", "OpenIDCredentialDetails"}

\* C9 witness: the matcher has passed over a message that correlates by
\* connection and by thread, and the process is still waiting.
C9_Witness ==
  /\ lifecycle = "mounted"
  /\ state.inProgress
  /\ pending = <<>>
  /\ Len(notifications) = 1
  /\ notifications[1].type = "BasicMessageRecord"
  /\ connection # undefined
  /\ notifications[1].connectionId = connection.id
  /\ oobRecord # undefined
  /\ notifications[1].threadId \in oobRecord.invitationRequestsThreadIds
  /\ oobRecord.goalCode \in KnownGoalCodes
  /\ state.notificationRecord = undefined

\* C10: unmounting leaves the timer cancelled, and once unmounted the
\* instance changes neither its local state, its queue of updates, its timer
\* nor the navigation and announcement calls, whatever the store does.
C10_NoActivityAfterUnmount ==
  [][/\ lifecycle' = "unmounted" => timerRef' = "null"
     /\ lifecycle = "unmounted"
          => UNCHANGED <<state, pending, timerRef, nav, announced, errors, lifecycle>>]_vars

\* C10 witness: the screen was unmounted before the timer expired and before
\* any match; a credential that would have matched reached the feed later.
C10_Witness ==
  /\ lifecycle = "unmounted"
  /\ timerRef = "null"
  /\ state = InitialState
  /\ pending = <<>>
  /\ nav = <<>>
  /\ \E i \in DOMAIN notifications : notifications[i].type = "W3cCredentialRecord"
  /\ oobRecord # undefined
  /\ connection # undefined

\* C11: once notificationRecord holds a record, every later committed state
\* and every queued update keeps that same record.
C11_MatchIsMonotonic ==
  [][state.notificationRecord # undefined
       => /\ state'.notificationRecord = state.notificationRecord
          /\ NextState'.notificationRecord = state.notificationRecord]_vars

\* C11 witness: a record is matched, the process is still in progress, and a
\* record that qualifies has since been put ahead of it in the feed.
C11_Witness ==
  /\ lifecycle = "mounted"
  /\ pending = <<>>
  /\ state.inProgress
  /\ state.notificationRecord # undefined
  /\ Len(notifications) = 2
  /\ notifications[2] = state.notificationRecord
  /\ notifications[1].type = "W3cCredentialRecord"

\* The reference matcher of C12: does record r qualify?
RefQualifies(r, conn, oob) ==
  /\ r.type # "BasicMessageRecord"
  /\ \/ conn # undefined /\ r.connectionId = conn.id
     \/ oob # undefined /\ r.threadId \in oob.invitationRequestsThreadIds
     \/ r.type \in {"W3cCredentialRecord", "SdJwtVcRecord"}

\* The reference matcher of C12: the first qualifying record, in feed order.
RefMatch(feed, conn, oob) ==
  LET hits == {i \in DOMAIN feed : RefQualifies(feed[i], conn, oob)}
  IN  IF hits = {} THEN undefined
      ELSE feed[CHOOSE i \in hits : \A j \in hits : i <= j]

\* C12: a render that sees inProgress true and no match leaves, as the
\* record the next render will see, exactly the reference matcher's result for
\* the feed, connection and invitation of that render.
C12_MatcherEqualsReference ==
  (/\ lifecycle = "mounted"
   /\ state.inProgress
   /\ state.notificationRecord = undefined)
    => NextState.notificationRecord = RefMatch(notifications, connection, oobRecord)

\* C12 witness: the matcher passed over the first record of the feed and
\* selected the second, which correlates by connection or thread.
C12_Witness ==
  /\ lifecycle = "mounted"
  /\ state.inProgress
  /\ state.notificationRecord = undefined
  /\ Len(notifications) = 2
  /\ notifications[1].type # "BasicMessageRecord"
  /\ NextState.notificationRecord = notifications[2]
  /\ notifications[2].type \in {"CredentialExchangeRecord", "ProofExchangeRecord"}

\* C13: once the committed inProgress is false, no field of the local state
\* changes again.
C13_FrozenAfterResolution ==
  [][~state.inProgress => state' = state]_vars

\* C14: with auto-redirect on, under fair rendering and a fair timer, every
\* instance that is never unmounted eventually commits inProgress = false.
C14_EventuallyResolved ==
  autoRedirectConnectionToHome => <>(lifecycle = "unmounted" \/ ~state.inProgress)

\* C14 (amended): with auto-redirect on, under fair rendering and a fair
\* timer, every instance that is never unmounted eventually commits
\* inProgress = false, unless from some point on a matched notification waits
\* forever for an invitation record that never becomes available.
C14_ResolvedOrStalledOnInvitation ==
  autoRedirectConnectionToHome
    => \/ <>(lifecycle = "unmounted" \/ ~state.inProgress)
       \/ <>[](state.notificationRecord # undefined /\ oobRecord = undefined)

\* C14 witness: no invitation record ever appeared, nothing was matched, and
\* the watchdog ended the wait.
C14_Witness ==
  /\ autoRedirectConnectionToHome
  /\ lifecycle = "mounted"
  /\ oobRecord = undefined
  /\ state.notificationRecord = undefined
  /\ ~state.inProgress
  /\ pending = <<>>
  /\ nav = <<HomeCall(107)>>

\* C15: a render that sees a matched notification (not an OpenID credential)
\* and no invitation record while in progress has logged the error "No OOB
\* record where one is expected", and the router and the OpenID effect have
\* issued no navigation.
C15_MissingOobIsLogged ==
  (/\ lifecycle = "mounted"
   /\ state.inProgress
   /\ state.notificationRecord # undefined
   /\ state.notificationRecord.type \notin {"W3cCredentialRecord", "SdJwtVcRecord"}
   /\ oobRecord = undefined)
    => /\ "Connection: No OOB record where one is expected" \in errors
       /\ RoutingCalls = <<>>

\* C16: a render that sees an invitation, no connection and a matched
\* notification that is not an OpenID credential, while in progress, issues
\* ProofRequest for that notification's id and nothing else, and dispatches
\* inProgress = false, whatever the goal code and the kind of the record.
C16_ConnectionlessGoesToProofRequest ==
  (/\ lifecycle = "mounted"
   /\ state.inProgress
   /\ oobRecord # undefined
   /\ connection = undefined
   /\ state.notificationRecord # undefined
   /\ state.notificationRecord.type \notin {"W3cCredentialRecord", "SdJwtVcRecord"})
    => /\ EffectCalls =
            <<[screen |-> "ProofRequest",
               params |-> [proofId |-> state.notificationRecord.id], line |-> 144]>>
       /\ ~NextState.inProgress

\* C16 witness: a credential offer matched by thread id, under the goal code
\* aries.vc.issue and without a connection, went to ProofRequest.
C16_Witness ==
  /\ lifecycle = "mounted"
  /\ state.inProgress
  /\ oobRecord # undefined
  /\ oobRecord.goalCode = "aries.vc.issue"
  /\ connection = undefined
  /\ state.notificationRecord.type = "CredentialExchangeRecord"
  /\ Len(nav) = 1
  /\ nav[1].screen = "ProofRequest"
  /\ nav[1].params.proofId = state.notificationRecord.id

\* C17: a render that sees an invitation with goal code aries.vc.verify or
\* aries.vc.verify.once, a connection and a matched notification that is not
\* an OpenID credential, while in progress, issues ProofRequest for that
\* notification's id and nothing else (no CredentialOffer, no Chat).
C17_VerifyGoesToProofRequest ==
  (/\ lifecycle = "mounted"
   /\ state.inProgress
   /\ oobRecord # undefined
   /\ oobRecord.goalCode \in {"aries.vc.verify", "aries.vc.verify.once"}
   /\ connection # undefined
   /\ state.notificationRecord # undefined
   /\ state.notificationRecord.type \notin {"W3cCredentialRecord", "SdJwtVcRecord"})
    => /\ EffectCalls =
            <<[screen |-> "ProofRequest",
               params |-> [proofId |-> state.notificationRecord.id], line |-> 164]>>
       /\ ~NextState.inProgress

\* C17 witness: under aries.vc.verify.once and a connection, a matched proof
\* exchange went to ProofRequest.
C17_Witness ==
  /\ lifecycle = "mounted"
  /\ state.inProgress
  /\ oobRecord # undefined
  /\ oobRecord.goalCode = "aries.vc.verify.once"
  /\ connection # undefined
  /\ state.notificationRecord.type = "ProofExchangeRecord"
  /\ Len(nav) = 1
  /\ nav[1].screen = "ProofRequest"
  /\ nav[1].params.proofId = state.notificationRecord.id

\* The Home calls issued by the watchdog auto-redirect.
WatchdogCalls == SelectSeq(nav, LAMBDA call : call.line = 107)

\* C18: a render that commits the timer's expiry (shouldShowDelayMessage turns
\* true) while a notification was already matched issues no watchdog Home
\* call, queues no watchdog update of inProgress, and leaves the matched
\* notification as it was, whether autoRedirectConnectionToHome is set or not.
C18_ExpiryAfterMatchIsNoOp ==
  [][(/\ state.notificationRecord # undefined
      /\ ~state.shouldShowDelayMessage
      /\ state'.shouldShowDelayMessage)
       => /\ WatchdogCalls' = WatchdogCalls
          /\ \A i \in DOMAIN pending' :
               DOMAIN pending'[i] # {"shouldShowDelayMessage", "inProgress"}
          /\ state'.inProgress = state.inProgress
          /\ state'.notificationRecord = state.notificationRecord
          /\ NextState'.notificationRecord = state.notificationRecord]_vars

\* C18 witness: with the auto-redirect on, the expiry has been committed on
\* top of a match and the process is still in progress with no navigation.
C18_Witness ==
  /\ autoRedirectConnectionToHome
  /\ lifecycle = "mounted"
  /\ state.shouldShowDelayMessage
  /\ state.notificationRecord # undefined
  /\ state.inProgress
  /\ timerRef = "null"
  /\ pending = <<>>
  /\ nav = <<>>

\* C19: as long as no invitation record is observed, no navigation comes from
\* the goal-code router (every call is the dismiss press, the watchdog
\* redirect or the OpenID credential branch), and the process is resolved,
\* once the queued updates are applied, only together with one of those calls.
C19_NoInvitationNoRouting ==
  oobRecord = undefined
    => /\ \A i \in DOMAIN nav : nav[i].line \in {95, 107, 202}
       /\ (~NextState.inProgress => nav # <<>>)

\* C19 witness: without an invitation, a connection and a matched credential
\* offer are observed and the process is still waiting.
C19_Witness ==
  /\ lifecycle = "mounted"
  /\ oobRecord = undefined
  /\ connection # undefined
  /\ state.notificationRecord # undefined
  /\ state.notificationRecord.type = "CredentialExchangeRecord"
  /\ state.inProgress
  /\ pending = <<>>
  /\ nav = <<>>

\* C20: once a navigation call has been issued, applying the queued updates
\* gives inProgress = false; and every step that issues a call queues an
\* update that sets inProgress to false.
C20_NavigationImpliesResolved ==
  /\ nav # <<>> => ~NextState.inProgress
  /\ (nav # <<>> /\ pending = <<>>) => ~state.inProgress

\* C20, as a property of steps: a step that appends a navigation call leaves
\* an update with inProgress = false in the queue.
C20_NavigationQueuesResolution ==
  [][Len(nav') > Len(nav)
       => \E i \in DOMAIN pending' :
            /\ "inProgress" \in DOMAIN pending'[i]
            /\ ~pending'[i].inProgress]_vars

\* C20 witness: the watchdog redirect has been issued and its update applied.
C20_Witness ==
  /\ pending = <<>>
  /\ Len(nav) = 1
  /\ nav[1].line = 107
  /\ ~state.inProgress
====
